---- MODULE Spec2Model ----
(***************************************************************************)
(* The xweb handler-factory registry (registry.go): a mapping of binding   *)
(* (string) to WebHandlerFactory, with Add and Get.                        *)
(*                                                                         *)
(* A registry struct holds one field, `factories`, a Go map.  A Go map is  *)
(* a reference: the struct holds the address of the map, and the value     *)
(* receivers of Add and Get copy the struct, not the map.  The model keeps *)
(* the maps in `heap`, addressed by the reference the struct holds; the    *)
(* nil map is the reference NilMap.                                        *)
(***************************************************************************)
EXTENDS Integers, FiniteSets, Sequences, TLC

(* ------------------------------ bounds -------------------------------- *)

\* registry instances the program creates
NumRegistries == 2

\* distinct factory objects that report the same binding
MaxFactoryId == 2

\* binding strings in use; equality is exact string match
Bindings == {"rest-v1", "rest-v2"}

Registries == 1 .. NumRegistries

\* goroutines that each run one Add, and goroutines that each run one Get
NumWriters == 2
NumReaders == 2

\* declared API instances per binding in one server configuration
MaxInstances == 2

(* ----------------------------- factories ------------------------------ *)

\* A WebHandlerFactory value: its identity, and `names`, the set of strings
\* its Binding() method may return.  A factory that honours "must not change
\* across calls" has exactly one name.
NilFactory == [id |-> 0, names |-> {}]

StableFactories == {[id |-> i, names |-> {b}] : i \in 1 .. MaxFactoryId, b \in Bindings}

\* One factory object per non-empty set of results: those that report one
\* binding, and one whose Binding() result changes between calls.
AllFactories == {[id |-> 1, names |-> s] : s \in (SUBSET Bindings) \ {{}}}

\* The results one evaluation of factory.Binding() can have.
Binding(factory) == factory.names

IsStable(factory) == Cardinality(Binding(factory)) = 1

(* ------------------------------ registry ------------------------------ *)

NilMap == 0

EmptyMap == [b \in {} |-> NilFactory]

\* The zero value of the struct: its map field is the nil map.
ZeroRegistry == [factories |-> NilMap]

\* A global map shared by every registry.
NewSharedRegistry(i) == [factories |-> 1]

\* NewWebHandlerFactoryRegistryImpl: the i-th call allocates a fresh, empty
\* map (at address i) and returns a struct that refers to it.
NewWebHandlerFactoryRegistryImpl(i) == [factories |-> i]

\* A presence check that never finds the key.
NeverRegistered(h, registry, binding) == FALSE

\* `_, ok := registry.factories[binding]`; reading the nil map finds nothing.
IsRegistered(h, registry, binding) ==
    /\ registry.factories # NilMap
    /\ binding \in DOMAIN h[registry.factories]

\* A lookup that falls back to some registered factory when the key is absent.
GetOrAny(h, registry, binding) ==
    IF registry.factories = NilMap THEN NilFactory
    ELSE LET m == h[registry.factories] IN
         IF binding \in DOMAIN m THEN m[binding]
         ELSE IF DOMAIN m = {} THEN NilFactory
         ELSE m[CHOOSE k \in DOMAIN m : TRUE]

\* Get: `return registry.factories[binding]`; an absent key (and the nil map)
\* yields the zero value of the interface type, nil.
Get(h, registry, binding) ==
    IF registry.factories # NilMap /\ binding \in DOMAIN h[registry.factories]
    THEN h[registry.factories][binding]
    ELSE NilFactory

\* A lookup that inserts an entry for a key it does not find.
HeapAfterInsertingGet(h, registry, binding) ==
    IF registry.factories = NilMap \/ binding \in DOMAIN h[registry.factories]
    THEN h
    ELSE [h EXCEPT ![registry.factories] =
            [k \in DOMAIN @ \cup {binding} |-> IF k = binding THEN NilFactory ELSE @[k]]]

\* Get assigns nothing: the maps after a Get are the maps before it.
HeapAfterGet(h, registry, binding) == h

\* A store under a key that ignores the factory's binding.
StoreUnderFixedKey(h, registry, binding, factory) ==
    [h EXCEPT ![registry.factories] =
        [k \in DOMAIN @ \cup {"rest-v1"} |-> IF k = "rest-v1" THEN factory ELSE @[k]]]

\* A store into a private copy of the map: the registry's map is untouched.
StoreIntoCopy(h, registry, binding, factory) == h

\* `registry.factories[binding] = factory` on a non-nil map.
Store(h, registry, binding, factory) ==
    [h EXCEPT ![registry.factories] =
        [k \in DOMAIN @ \cup {binding} |-> IF k = binding THEN factory ELSE @[k]]]

\* fmt.Errorf("binding [%s] already registered", factory.Binding())
AlreadyRegistered(binding) == "binding [" \o binding \o "] already registered"

(* ------------------------------- state -------------------------------- *)

VARIABLES
    registry,   \* registry[i]: the i-th registry struct
    heap,       \* heap[a]: the contents of the map at address a
    pool,       \* the factory values callers pass to Add
    ret,        \* the last completed call: its arguments and what it returned
    firstAdd,   \* history: firstAdd[i][b], the factory of the first Add on i that checked b
    succeeded,  \* history: succeeded[i], the bindings under which an Add on i returned nil
    panicked,   \* a call has panicked; the program has stopped
    writers,    \* writers[p]: a goroutine that runs one Add, and where it is in it
    overlapped, \* history: two Add calls of the writers have overlapped
    readers,    \* readers[p]: a goroutine that runs one Get
    loader      \* the configuration load of one server

vars == <<registry, heap, pool, ret, firstAdd, succeeded, panicked,
          writers, overlapped, readers, loader>>

concVars == <<writers, overlapped, readers>>

NoCall == [op |-> "none", reg |-> 0, factory |-> NilFactory, binding |-> "",
           key |-> "", err |-> "", out |-> NilFactory, fault |-> ""]

Writers == 1 .. NumWriters
Readers == 1 .. NumReaders

IdleWriter == [pc |-> "idle", factory |-> NilFactory, checked |-> "", err |-> ""]
IdleReader == [pc |-> "idle", binding |-> "", out |-> NilFactory]
NoLoad == [pc |-> "off", declared |-> [b \in Bindings |-> 0],
           validateCalls |-> [b \in Bindings |-> 0],
           newCalls |-> [b \in Bindings |-> 0],
           handlers |-> {}, validateFailed |-> FALSE]

InitCommon ==
    /\ ret = NoCall
    /\ firstAdd = [i \in Registries |-> [b \in Bindings |-> NilFactory]]
    /\ succeeded = [i \in Registries |-> {}]
    /\ panicked = FALSE
    /\ writers = [p \in Writers |-> IdleWriter]
    /\ overlapped = FALSE
    /\ readers = [p \in Readers |-> IdleReader]

\* Every registry comes from its own NewWebHandlerFactoryRegistryImpl call and
\* every factory reports one binding.
Init ==
    /\ InitCommon
    /\ registry = [i \in Registries |-> NewWebHandlerFactoryRegistryImpl(i)]
    /\ heap = [a \in Registries |-> EmptyMap]
    /\ pool = StableFactories
    /\ loader = NoLoad

\* As Init, with a factory whose Binding() may change between calls.
InitUnstable ==
    /\ InitCommon
    /\ registry = [i \in Registries |-> NewWebHandlerFactoryRegistryImpl(i)]
    /\ heap = [a \in Registries |-> EmptyMap]
    /\ pool = AllFactories
    /\ loader = NoLoad

\* Registries that are zero values of the struct, and a nil factory argument.
InitZero ==
    /\ InitCommon
    /\ registry \in [Registries -> {ZeroRegistry} \cup {NewWebHandlerFactoryRegistryImpl(i) : i \in Registries}]
    /\ \A i \in Registries : registry[i].factories \in {NilMap, i}
    /\ heap = [a \in Registries |-> EmptyMap]
    /\ pool = StableFactories \cup {NilFactory}
    /\ loader = NoLoad

(* ------------------------- sequential callers ------------------------- *)

\* History: the factory of the first Add call on registry i whose presence
\* check looked at `checked`.
RecordFirst(i, checked, factory) ==
    IF firstAdd[i][checked] = NilFactory
    THEN [firstAdd EXCEPT ![i][checked] = factory]
    ELSE firstAdd

Panic(i, factory, checked, why) ==
    /\ panicked' = TRUE
    /\ ret' = [NoCall EXCEPT !.op = "Add", !.reg = i, !.factory = factory,
                             !.binding = checked, !.fault = why]
    /\ UNCHANGED <<registry, heap, pool, firstAdd, succeeded>>

\* registry[i].Add(factory).  factory.Binding() is evaluated for the log line,
\* again for the presence check, and once more for the error text or the store.
\* The log line's evaluation decides nothing; `checked` and `last` are the
\* results of the other two.
Add(i, factory) ==
    /\ ~panicked
    /\ IF factory = NilFactory
       THEN Panic(i, factory, "", "nil pointer dereference")
       ELSE \E checked \in Binding(factory), last \in Binding(factory) :
            IF IsRegistered(heap, registry[i], checked)
            THEN /\ ret' = [NoCall EXCEPT !.op = "Add", !.reg = i, !.factory = factory,
                                          !.binding = checked, !.key = last,
                                          !.err = AlreadyRegistered(last)]
                 /\ firstAdd' = RecordFirst(i, checked, factory)
                 /\ UNCHANGED <<registry, heap, pool, succeeded, panicked>>
            ELSE IF registry[i].factories = NilMap
            THEN Panic(i, factory, checked, "assignment to entry in nil map")
            ELSE /\ heap' = Store(heap, registry[i], last, factory)
                 /\ ret' = [NoCall EXCEPT !.op = "Add", !.reg = i, !.factory = factory,
                                          !.binding = checked, !.key = last,
                                          !.err = "nil"]
                 /\ firstAdd' = RecordFirst(i, checked, factory)
                 /\ succeeded' = [succeeded EXCEPT ![i] = @ \cup {last}]
                 /\ UNCHANGED <<registry, pool, panicked>>
    /\ UNCHANGED <<concVars, loader>>

\* registry[i].Get(binding)
GetCall(i, binding) ==
    /\ ~panicked
    /\ heap' = HeapAfterGet(heap, registry[i], binding)
    /\ ret' = [NoCall EXCEPT !.op = "Get", !.reg = i, !.binding = binding,
                             !.out = Get(heap, registry[i], binding)]
    /\ UNCHANGED <<registry, pool, firstAdd, succeeded, panicked, concVars, loader>>

Next ==
    \/ \E i \in Registries, factory \in pool : Add(i, factory)
    \/ \E i \in Registries, binding \in Bindings : GetCall(i, binding)

Spec == Init /\ [][Next]_vars

SpecUnstable == InitUnstable /\ [][Next]_vars

SpecZero == InitZero /\ [][Next]_vars

(* ------------------------ concurrent callers -------------------------- *)

\* The writers and the readers share one registry, the first.
shared == registry[1]

\* Another writer is between its presence check and its store: its write to
\* the map is not ordered with what writer p does now.
Racing(p) == \E q \in Writers \ {p} : writers[q].pc = "checked"

\* The Go runtime detects some unsynchronised map accesses and then ends the
\* process ("fatal error: concurrent map writes", "concurrent map read and map
\* write"); whether it does is not determined.
Fatal(p) ==
    /\ Racing(p)
    /\ panicked' = TRUE
    /\ writers' = [writers EXCEPT ![p].pc = "fatal"]
    /\ UNCHANGED <<heap, firstAdd, succeeded>>

\* Writer p calls Add(factory) and runs it up to the presence check.
AddCheck(p, factory) ==
    /\ ~panicked
    /\ writers[p].pc = "idle"
    /\ overlapped' = (overlapped \/ Racing(p))
    /\ \/ \E checked \in Binding(factory) :
            /\ firstAdd' = RecordFirst(1, checked, factory)
            /\ IF IsRegistered(heap, shared, checked)
               THEN \E last \in Binding(factory) :
                      writers' = [writers EXCEPT ![p] =
                          [pc |-> "done", factory |-> factory, checked |-> checked,
                           err |-> AlreadyRegistered(last)]]
               ELSE writers' = [writers EXCEPT ![p] =
                          [pc |-> "checked", factory |-> factory, checked |-> checked,
                           err |-> ""]]
            /\ UNCHANGED <<heap, succeeded, panicked>>
       \/ Fatal(p)
    /\ UNCHANGED <<registry, pool, ret, readers, loader>>

\* Writer p, having found the binding absent, stores and returns nil.
AddStore(p) ==
    /\ ~panicked
    /\ writers[p].pc = "checked"
    /\ \/ \E last \in Binding(writers[p].factory) :
            /\ heap' = Store(heap, shared, last, writers[p].factory)
            /\ succeeded' = [succeeded EXCEPT ![1] = @ \cup {last}]
            /\ writers' = [writers EXCEPT ![p].pc = "done", ![p].err = "nil"]
            /\ UNCHANGED <<firstAdd, panicked>>
       \/ Fatal(p)
    /\ UNCHANGED <<registry, pool, ret, overlapped, readers, loader>>

\* Every Add call has returned: writes have ceased.
AddsCompleted == \A p \in Writers : writers[p].pc = "done"

\* Reader p calls Get(binding), once the writes have ceased.
GetBegin(p, binding) ==
    /\ ~panicked
    /\ AddsCompleted
    /\ readers[p].pc = "idle"
    /\ readers' = [readers EXCEPT ![p].pc = "called", ![p].binding = binding]
    /\ UNCHANGED <<registry, heap, pool, ret, firstAdd, succeeded, panicked,
                   writers, overlapped, loader>>

\* Reader p reads the map and returns.
GetReturn(p) ==
    /\ readers[p].pc = "called"
    /\ heap' = HeapAfterGet(heap, shared, readers[p].binding)
    /\ readers' = [readers EXCEPT ![p].pc = "done",
                                  ![p].out = Get(heap, shared, readers[p].binding)]
    /\ UNCHANGED <<registry, pool, ret, firstAdd, succeeded, panicked,
                   writers, overlapped, loader>>

NextConc ==
    \/ \E p \in Writers, factory \in pool : AddCheck(p, factory)
    \/ \E p \in Writers : AddStore(p)
    \/ \E p \in Readers, binding \in Bindings : GetBegin(p, binding)
    \/ \E p \in Readers : GetReturn(p)

SpecConc == Init /\ [][NextConc]_vars

(* ------------------------- configuration load ------------------------- *)

\* The binding groups of the configuration: the bindings with a declared
\* API instance.
Groups(l) == {b \in Bindings : l.declared[b] > 0}

\* A loader that constructs a group's handlers as soon as that group is
\* validated.
MayConstructGroup(l, b) == l.pc = "validate" /\ l.validateCalls[b] = 1

\* Construction starts when every group has been validated.
MayConstruct(l, b) == l.pc = "construct"

\* Registration is complete: registry 1 holds one factory per binding.  The
\* configuration declares up to MaxInstances API instances per binding.
InitLoad ==
    /\ InitCommon
    /\ registry = [i \in Registries |-> NewWebHandlerFactoryRegistryImpl(i)]
    /\ heap = [a \in Registries |->
                 IF a = 1 THEN [b \in Bindings |-> [id |-> 1, names |-> {b}]]
                 ELSE EmptyMap]
    /\ pool = StableFactories
    /\ \E d \in [Bindings -> 0 .. MaxInstances] :
          loader = [NoLoad EXCEPT !.pc = "validate", !.declared = d]

loadFrame == <<registry, heap, pool, ret, firstAdd, succeeded, panicked, concVars>>

\* The loader looks up the factory of group b and calls its Validate, which
\* returns nil or an error; an error aborts the load.
LoadValidate(b) ==
    /\ loader.pc = "validate"
    /\ b \in Groups(loader)
    /\ loader.validateCalls[b] = 0
    /\ Get(heap, registry[1], b) # NilFactory
    /\ \E ok \in BOOLEAN :
          loader' = [loader EXCEPT !.validateCalls[b] = @ + 1,
                                   !.validateFailed = ~ok,
                                   !.pc = IF ok THEN @ ELSE "aborted"]
    /\ UNCHANGED loadFrame

\* Every group is validated: the loader goes on to construct the handlers.
LoadStartConstruct ==
    /\ loader.pc = "validate"
    /\ \A b \in Groups(loader) : loader.validateCalls[b] = 1
    /\ loader' = [loader EXCEPT !.pc = "construct"]
    /\ UNCHANGED loadFrame

\* The loader calls New of the factory of b for the next declared instance;
\* New returns a handler or an error, and an error aborts the load.
LoadNew(b) ==
    /\ MayConstruct(loader, b)
    /\ loader.newCalls[b] < loader.declared[b]
    /\ \E ok \in BOOLEAN :
          loader' = [loader EXCEPT
                        !.newCalls[b] = @ + 1,
                        !.handlers = IF ok THEN @ \cup {<<b, loader.newCalls[b] + 1>>} ELSE @,
                        !.pc = IF ok THEN @ ELSE "aborted"]
    /\ UNCHANGED loadFrame

\* Every declared instance has its handler.
LoadFinish ==
    /\ loader.pc = "construct"
    /\ \A b \in Bindings : loader.newCalls[b] = loader.declared[b]
    /\ loader' = [loader EXCEPT !.pc = "done"]
    /\ UNCHANGED loadFrame

NextLoad ==
    \/ \E b \in Bindings : LoadValidate(b)
    \/ LoadStartConstruct
    \/ \E b \in Bindings : LoadNew(b)
    \/ LoadFinish

SpecLoad == InitLoad /\ [][NextLoad]_vars

(* ------------------------ claims: sequential use ---------------------- *)

\* The map of registry i.
MapOf(i) == IF registry[i].factories = NilMap THEN EmptyMap ELSE heap[registry[i].factories]

\* The step just taken was an Add on a registry in which the binding the
\* factory reports was (not) registered before the call.
DuplicateAdd == ret'.op = "Add" /\ ret'.binding \in DOMAIN MapOf(ret'.reg)
FreshAdd == ret'.op = "Add" /\ ret'.binding \notin DOMAIN MapOf(ret'.reg)

\* C1: an Add whose binding is already registered returns a non-nil error and
\* leaves every map unchanged, and Get(b) always returns the factory of the
\* first Add call with binding b.
C1_DuplicateAddRejected ==
    /\ [][DuplicateAdd => /\ ret'.err = AlreadyRegistered(ret'.binding)
                          /\ ret'.fault = ""
                          /\ heap' = heap /\ registry' = registry]_vars
    /\ [](\A i \in Registries, b \in Bindings :
            firstAdd[i][b] # NilFactory => Get(heap, registry[i], b) = firstAdd[i][b])

\* A second Add with a registered binding has been rejected, and the first
\* factory is still the one in the map.
C1_Witness ==
    /\ ret.op = "Add" /\ ret.err = "binding [rest-v1] already registered"
    /\ ret.factory # firstAdd[ret.reg]["rest-v1"]
    /\ Get(heap, registry[ret.reg], "rest-v1") = firstAdd[ret.reg]["rest-v1"]

\* C2: an Add whose binding is not yet registered returns nil, afterwards Get
\* of that binding returns the factory, and Get of every other binding returns
\* what it returned before.
C2_FreshAddStores ==
    [][FreshAdd =>
          /\ ret'.err = "nil" /\ ret'.fault = ""
          /\ Get(heap', registry'[ret'.reg], ret'.binding) = ret'.factory
          /\ \A b \in Bindings \ {ret'.binding} :
                Get(heap', registry'[ret'.reg], b) = Get(heap, registry[ret'.reg], b)]_vars

\* Two factories with distinct bindings have both been added to one registry
\* and each is found under its own binding.
C2_Witness ==
    /\ ret.op = "Add" /\ ret.err = "nil"
    /\ DOMAIN MapOf(ret.reg) = Bindings
    /\ \A b \in Bindings : Binding(Get(heap, registry[ret.reg], b)) = {b}

\* C3: Get(b) is nil for every binding b under which no Add has succeeded on
\* that registry, a fresh registry included, and a Get never returns a factory
\* that reports another binding.
C3_AbsentIsNil ==
    /\ \A i \in Registries, b \in Bindings :
          b \notin succeeded[i] => Get(heap, registry[i], b) = NilFactory
    /\ ret.op = "Get" =>
          /\ ret.binding \notin succeeded[ret.reg] => ret.out = NilFactory
          /\ ret.out # NilFactory => Binding(ret.out) = {ret.binding}

\* A Get of an unregistered binding returned nil on a registry that holds a
\* factory under another binding.
C3_Witness ==
    /\ ret.op = "Get" /\ ret.out = NilFactory
    /\ succeeded[ret.reg] # {} /\ ret.binding \notin succeeded[ret.reg]

\* C4: a Get leaves every map unchanged, inserting nothing for an absent
\* binding, and a Get repeated with no call in between returns the same result.
C4_GetIsPure ==
    [][ret'.op = "Get" =>
          /\ heap' = heap /\ registry' = registry
          /\ (ret.op = "Get" /\ ret.reg = ret'.reg /\ ret.binding = ret'.binding)
                => ret'.out = ret.out]_vars

\* A Get of an absent binding has returned nil on a registry that holds an
\* entry, and the map still has no entry for that binding.
C4_Witness ==
    /\ ret.op = "Get" /\ ret.out = NilFactory
    /\ ret.binding \notin DOMAIN MapOf(ret.reg)
    /\ DOMAIN MapOf(ret.reg) # {}

\* C5: every Add call ends by returning nil or an error, and never panics, for
\* a nil factory and for a zero-value registry too.
C5_AddNeverFaults ==
    ret.op = "Add" => ret.fault = "" /\ ret.err # ""

\* C6: an Add on one registry never changes what Get returns on another, and
\* an Add succeeds exactly when no Add of that binding has succeeded on the
\* same registry, whatever the other registries hold.
C6_UniquenessPerRegistry ==
    [][ret'.op = "Add" =>
          /\ \A j \in Registries \ {ret'.reg}, b \in Bindings :
                Get(heap', registry'[j], b) = Get(heap, registry[j], b)
          /\ ret'.err = "nil" <=> ret'.binding \notin succeeded[ret'.reg]]_vars

\* The same binding is registered in two registries, with different factories.
C6_Witness ==
    /\ ret.op = "Add" /\ ret.err = "nil"
    /\ \E j \in Registries \ {ret.reg} :
          /\ ret.binding \in DOMAIN MapOf(j)
          /\ Get(heap, registry[j], ret.binding) # ret.factory
          /\ Get(heap, registry[ret.reg], ret.binding) = ret.factory

\* C9 as stated: each entry is stored under the binding its factory reports,
\* whatever evaluation of Binding() is taken.
C9_KeyIsTheBinding ==
    \A i \in Registries : \A k \in DOMAIN MapOf(i) : Binding(MapOf(i)[k]) = {k}

\* C9 as amended: each entry is stored under a binding its factory reports;
\* for a factory with one binding that is the binding.
C9_KeyIsABinding ==
    \A i \in Registries : \A k \in DOMAIN MapOf(i) :
        /\ k \in Binding(MapOf(i)[k])
        /\ IsStable(MapOf(i)[k]) => Binding(MapOf(i)[k]) = {k}

\* A registry holds a factory with one binding and a factory whose Binding()
\* changes between calls.
C9_Witness ==
    \E i \in Registries :
        /\ DOMAIN MapOf(i) = Bindings
        /\ \E k \in Bindings : ~IsStable(MapOf(i)[k])
        /\ \E k \in Bindings : IsStable(MapOf(i)[k])

(* ------------------------ claims: concurrent use ---------------------- *)

\* The writers whose Add of a factory with binding b returned nil.
Winners(b) == {p \in Writers : writers[p].pc = "done" /\ writers[p].err = "nil"
                                /\ writers[p].checked = b}

AtMostOnce(b) ==
    /\ Cardinality(Winners(b)) <= 1
    /\ AddsCompleted => \A p \in Winners(b) : Get(heap, shared, b) = writers[p].factory

\* C7: once all Add calls have completed, every Get of concurrently running
\* readers returns what the map holds for its binding, the registered factory
\* or nil, and no step of a reader changes a map.
C7_ConcurrentGets ==
    /\ [](\A p \in Readers : readers[p].pc = "done" =>
             readers[p].out = IF readers[p].binding \in DOMAIN MapOf(1)
                              THEN MapOf(1)[readers[p].binding]
                              ELSE NilFactory)
    /\ [][readers' # readers => heap' = heap /\ registry' = registry]_vars

\* One reader has returned a registered factory and another nil; both ran
\* after the writers.
C7_Witness ==
    \E p, q \in Readers :
        /\ readers[p].pc = "done" /\ readers[p].out # NilFactory
        /\ readers[q].pc = "done" /\ readers[q].out = NilFactory

\* C10 as stated: of the Add calls with one binding at most one returns nil,
\* however their steps interleave, and Get afterwards returns its factory.
C10_AtMostOnceAlways == \A b \in Bindings : AtMostOnce(b)

\* C10 as amended: the same, for Add calls that did not overlap.
C10_AtMostOnceSerial == ~overlapped => \A b \in Bindings : AtMostOnce(b)

\* Two Add calls with one binding ran one after the other: one returned nil,
\* the other the error.
C10_Witness ==
    /\ ~overlapped /\ AddsCompleted
    /\ \E p, q \in Writers :
          /\ writers[p].checked = writers[q].checked
          /\ writers[p].err = "nil" /\ writers[q].err \notin {"nil", ""}

(* ---------------------- claims: configuration load -------------------- *)

\* C8: during configuration load Validate is called exactly once for every
\* binding group and before any New call for that binding, and once a Validate
\* has returned an error no New call is made and no handler exists.
C8_ValidateBeforeNew ==
    /\ \A b \in Bindings :
          /\ loader.validateCalls[b] <= 1
          /\ loader.newCalls[b] > 0 => loader.validateCalls[b] = 1
          /\ b \notin Groups(loader) => loader.validateCalls[b] = 0 /\ loader.newCalls[b] = 0
    /\ loader.pc \in {"construct", "done"} =>
          \A b \in Groups(loader) : loader.validateCalls[b] = 1
    /\ loader.validateFailed =>
          /\ loader.handlers = {}
          /\ \A b \in Bindings : loader.newCalls[b] = 0

\* With two groups declared, the first Validate returned nil and the second an
\* error: the load is aborted.
C8_Witness ==
    /\ loader.pc = "aborted" /\ loader.validateFailed
    /\ Groups(loader) = Bindings
    /\ \A b \in Bindings : loader.validateCalls[b] = 1

====
